---- MODULE Spec2Model ----
(***************************************************************************)
(* Model of backend/ai_generator.py: provider selection at construction    *)
(* (AIGenerator.__init__) and the generation / tool-execution round of     *)
(* AIGenerator.generate_response under the native (Anthropic) protocol and *)
(* the function-calling (aisuite) protocol; of backend/app.py: the query    *)
(* endpoint's answers and the middleware stack; of backend/config.py: the  *)
(* credential fields of Config and the environment they are read from.     *)
(*                                                                         *)
(* Python values are modelled as follows.  A str is a sequence of          *)
(* characters where the code slices or concatenates it (credentials, the   *)
(* system instruction) and a TLA+ string where it is only compared.  None  *)
(* is the record None; a str held in a slot that may also hold None is     *)
(* wrapped by Str.  A dict is a function over its keys, so that a key is   *)
(* present exactly when it is in the DOMAIN; {**a, "k": v} is              *)
(* [k |-> v] @@ a.                                                         *)
(***************************************************************************)
EXTENDS Integers, Sequences, FiniteSets, TLC

VARIABLES
    ai,        \* ai_generator.py global `ai`: the aisuite module, or None when the import failed
    config,    \* config.py global `config = Config()`
    gen,       \* the AIGenerator instance (or the failure of its construction)
    loc,       \* per call of generate_response: its arguments and local variables
    sent,      \* per call: the requests handed to the provider client, in order
    replies,   \* per call: what the provider answered to each request, in order
    executed,  \* per call: the tool_manager.execute_tool invocations, in order
    http,      \* per call: what POST /api/query answers once the call is over (None before)
    mask_arg,       \* the argument of a call of mask_api_key
    mask_result,    \* what that call returned (None before it returns)
    environ,        \* os.environ: the credential variables of the process
    class_defaults, \* the class attributes of Config, evaluated when config.py is imported
    built_environ,  \* os.environ as it was when the generator was last constructed
    http_request,   \* the HTTP request the application is serving
    http_response   \* the HTTP response that left the application for it

genVars == <<ai, config, gen, loc, sent, replies, executed, http>>
maskVars == <<mask_arg, mask_result>>
envVars == <<environ, class_defaults, built_environ>>
webVars == <<http_request, http_response>>
vars == <<genVars, maskVars, envVars, webVars>>

(***************************************************************************)
(* Bounds                                                                  *)
(***************************************************************************)
\* Longest content-block list of a native response and longest tool_calls
\* list of a function-calling response that the provider is taken to send.
MaxBlocks == 2

\* Calls of generate_response that may be in progress on one generator.
ThreadIds == {1, 2}

\* Longest credential handed to mask_api_key and logged by the constructor.
MaxKeyLen == 12

(***************************************************************************)
(* Python values                                                           *)
(***************************************************************************)
None == [none |-> TRUE]
Str(s) == [val |-> s]
List(l) == [val |-> l]
IsNone(v) == "none" \in DOMAIN v

\* Python truthiness of an Optional[str] / Optional[list]: None and the empty
\* string / list are falsy.
Truthy(v) == (~IsNone(v)) /\ Len(v.val) > 0

Chars4 == <<"*", "*", "*", "*">>

(***************************************************************************)
(* backend/config.py                                                       *)
(***************************************************************************)
OPENAI_MODEL == "gpt-4o"
ANTHROPIC_MODEL == "claude-sonnet-4-20250514"
GEMINI_MODEL == "gemini-1.5-pro-002"
GROK_MODEL == "grok-2-latest"

KeySlots == <<"OPENAI_API_KEY", "ANTHROPIC_API_KEY", "GOOGLE_API_KEY", "XAI_API_KEY">>

\* Secrets the environment may hold in a credential slot: absent (None),
\* empty, shorter than 8 characters, and 8 characters or longer.
ShortKey == Str(<<"s", "k", "-", "1", "2", "3", "4">>)
LongKey == Str(<<"s", "k", "-", "a", "n", "t", "0", "1", "2", "3">>)
KeyValues == {None, Str(<<>>), ShortKey, LongKey}

\* A Config instance: the four credential slots (the model names are the
\* class defaults above).
Config(o, a, g, x) ==
    [OPENAI_API_KEY |-> o, ANTHROPIC_API_KEY |-> a, GOOGLE_API_KEY |-> g, XAI_API_KEY |-> x]

Configs == {Config(o, a, g, x) : o \in KeyValues, a \in KeyValues, g \in KeyValues, x \in KeyValues}

\* No credential configured.
NoKeys == Config(Str(<<>>), Str(<<>>), Str(<<>>), Str(<<>>))

\* The configurations the generation model is run with: every slot empty or
\* holding one secret.
QueryConfigs ==
    {Config(o, a, g, x) : o \in {Str(<<>>), LongKey}, a \in {Str(<<>>), LongKey},
                          g \in {Str(<<>>), LongKey}, x \in {Str(<<>>), LongKey}}

(***************************************************************************)
(* mask_api_key                                                            *)
(***************************************************************************)
\* (faulty variant: a secret of exactly 8 characters is treated as short)
mask_api_key_Boundary(api_key) ==
    IF (~Truthy(api_key)) \/ Len(api_key.val) <= 8
    THEN Chars4
    ELSE SubSeq(api_key.val, 1, 4) \o Chars4
         \o SubSeq(api_key.val, Len(api_key.val) - 3, Len(api_key.val))

\* (faulty variant: a short secret is returned as it is)
mask_api_key_ShortKeyRaw(api_key) ==
    IF ~Truthy(api_key)
    THEN Chars4
    ELSE IF Len(api_key.val) < 8
         THEN api_key.val
         ELSE SubSeq(api_key.val, 1, 4) \o Chars4
              \o SubSeq(api_key.val, Len(api_key.val) - 3, Len(api_key.val))

mask_api_key(api_key) ==
    IF (~Truthy(api_key)) \/ Len(api_key.val) < 8
    THEN Chars4
    ELSE SubSeq(api_key.val, 1, 4) \o Chars4
         \o SubSeq(api_key.val, Len(api_key.val) - 3, Len(api_key.val))

(***************************************************************************)
(* AIGenerator.__init__                                                    *)
(***************************************************************************)
\* The client objects the constructor builds.
AnthropicClient(api_key) == [kind |-> "anthropic.Anthropic", api_key |-> api_key]
AisuiteClient == [kind |-> "aisuite.Client"]

\* A constructor run that raised: no instance exists.  `slot` is the
\* credential the error message names.
Raised(type, slot) == [state |-> "raised", error |-> [type |-> type, slot |-> slot]]

\* A constructor run that returned: the instance's attributes, with
\* base_params as pre-built at the end of __init__, and the text the
\* constructor logged for the credential.
Instance(cfg, provider_mode, client, model, logged) ==
    [state |-> "constructed",
     config |-> cfg,
     provider_mode |-> provider_mode,
     client |-> client,
     model |-> model,
     base_params |-> [model |-> IF provider_mode = "anthropic" THEN Str(model) ELSE None,
                      temperature |-> 0,
                      max_tokens |-> 800],
     logged |-> logged]

\* (faulty variant: the Gemini branch is tagged with the native convention)
AisuiteBranch_GeminiNative(cfg, aimod, slot, prefix, model) ==
    IF IsNone(aimod)
    THEN Raised("RuntimeError", slot)
    ELSE Instance(cfg, IF prefix = "google" THEN "anthropic" ELSE "aisuite",
                  AisuiteClient, prefix \o ":" \o model, mask_api_key(cfg[slot]))

\* An aisuite branch of the constructor: raises when the aisuite import
\* failed, otherwise builds the shared client and the prefixed model name.
AisuiteBranch(cfg, aimod, slot, prefix, model) ==
    IF IsNone(aimod)
    THEN Raised("RuntimeError", slot)
    ELSE Instance(cfg, "aisuite", AisuiteClient, prefix \o ":" \o model,
                  mask_api_key(cfg[slot]))

AnthropicBranch(cfg) ==
    Instance(cfg, "anthropic", AnthropicClient(cfg.ANTHROPIC_API_KEY),
             ANTHROPIC_MODEL, mask_api_key(cfg.ANTHROPIC_API_KEY))

\* Faulty variants of the provider routing, used to test the properties below.
AIGenerator_init_AnthropicFirst(cfg, aimod) ==
    IF Truthy(cfg.ANTHROPIC_API_KEY) THEN AnthropicBranch(cfg)
    ELSE IF Truthy(cfg.OPENAI_API_KEY)
         THEN AisuiteBranch(cfg, aimod, "OPENAI_API_KEY", "openai", OPENAI_MODEL)
    ELSE IF Truthy(cfg.GOOGLE_API_KEY)
         THEN AisuiteBranch(cfg, aimod, "GOOGLE_API_KEY", "google", GEMINI_MODEL)
    ELSE IF Truthy(cfg.XAI_API_KEY)
         THEN AisuiteBranch(cfg, aimod, "XAI_API_KEY", "xai", GROK_MODEL)
    ELSE Raised("ValueError", "none")

AIGenerator_init_DefaultProvider(cfg, aimod) ==
    IF Truthy(cfg.OPENAI_API_KEY)
    THEN AisuiteBranch(cfg, aimod, "OPENAI_API_KEY", "openai", OPENAI_MODEL)
    ELSE IF Truthy(cfg.GOOGLE_API_KEY)
         THEN AisuiteBranch(cfg, aimod, "GOOGLE_API_KEY", "google", GEMINI_MODEL)
    ELSE IF Truthy(cfg.XAI_API_KEY)
         THEN AisuiteBranch(cfg, aimod, "XAI_API_KEY", "xai", GROK_MODEL)
    ELSE AnthropicBranch(cfg)

AIGenerator_init_Fallback(cfg, aimod) ==
    IF Truthy(cfg.OPENAI_API_KEY) /\ ~IsNone(aimod)
    THEN AisuiteBranch(cfg, aimod, "OPENAI_API_KEY", "openai", OPENAI_MODEL)
    ELSE IF Truthy(cfg.ANTHROPIC_API_KEY) THEN AnthropicBranch(cfg)
    ELSE IF Truthy(cfg.OPENAI_API_KEY)
         THEN AisuiteBranch(cfg, aimod, "OPENAI_API_KEY", "openai", OPENAI_MODEL)
    ELSE IF Truthy(cfg.GOOGLE_API_KEY)
         THEN AisuiteBranch(cfg, aimod, "GOOGLE_API_KEY", "google", GEMINI_MODEL)
    ELSE IF Truthy(cfg.XAI_API_KEY)
         THEN AisuiteBranch(cfg, aimod, "XAI_API_KEY", "xai", GROK_MODEL)
    ELSE Raised("ValueError", "none")

\* The if / elif chain of __init__: OpenAI -> Anthropic -> Google -> xAI.
AIGenerator_init(cfg, aimod) ==
    IF Truthy(cfg.OPENAI_API_KEY)
    THEN AisuiteBranch(cfg, aimod, "OPENAI_API_KEY", "openai", OPENAI_MODEL)
    ELSE IF Truthy(cfg.ANTHROPIC_API_KEY) THEN AnthropicBranch(cfg)
    ELSE IF Truthy(cfg.GOOGLE_API_KEY)
         THEN AisuiteBranch(cfg, aimod, "GOOGLE_API_KEY", "google", GEMINI_MODEL)
    ELSE IF Truthy(cfg.XAI_API_KEY)
         THEN AisuiteBranch(cfg, aimod, "XAI_API_KEY", "xai", GROK_MODEL)
    ELSE Raised("ValueError", "none")

(***************************************************************************)
(* Values exchanged with the provider and the tool executor                *)
(***************************************************************************)
\* A Python expression either yields a value or raises.
Ok(v) == [ok |-> TRUE, value |-> v]
Raise(e) == [ok |-> FALSE, exc |-> e]
Exc(type) == [type |-> type]

\* Arguments of generate_response.  Caller t asks QueryOf(t).
QueryOf(t) == IF t = 1 THEN "What is MCP?" ELSE "What is RAG?"
Queries == {QueryOf(t) : t \in ThreadIds}
Histories == {None, Str(<<>>), Str(<<"User: hi / Assistant: hello">>)}
SearchTool == [name |-> "search_course_content",
               description |-> "Search course materials",
               input_schema |-> [type |-> "object"]]
ToolLists == {None, List(<<>>), List(<<SearchTool>>)}
ToolManager == [kind |-> "ToolManager"]
ToolManagers == {None, ToolManager}

\* The text the provider puts in block i of the response to request r.  The
\* code never inspects a text, so one distinct text per place stands for any.
\* Requests are numbered across callers: caller t's k-th request is
\* RequestNo(t, k), its k-th tool execution ExecNo(t, k).
RequestNo(t, k) == 2 * (t - 1) + k
ExecNo(t, k) == MaxBlocks * (t - 1) + k
Text(r, i) == [text |-> <<r, i>>]

\* Native protocol: a content block is a text block or a tool_use block.
TextBlock(r, i) == [type |-> "text", text |-> Text(r, i)]
ToolUseBlock(r, i) ==
    [type |-> "tool_use", id |-> "toolu_" \o ToString(r) \o "_" \o ToString(i),
     name |-> "search_course_content", input |-> [query |-> "MCP"]]
BlockTypes == {"text", "tool_use"}
AnthropicContents(r) ==
    UNION {{[i \in 1..n |-> IF k[i] = "text" THEN TextBlock(r, i) ELSE ToolUseBlock(r, i)] :
                k \in [1..n -> BlockTypes]} : n \in 0..MaxBlocks}
AnthropicResponses(r) ==
    {[stop_reason |-> s, content |-> c] : s \in {"end_turn", "tool_use"}, c \in AnthropicContents(r)}

\* Function-calling protocol: a tool call carries its arguments serialized.
ValidJson == "{\"query\": \"MCP\"}"
MalformedJson == "{\"query\": "
ToolCall(r, i, arguments) ==
    [id |-> "call_" \o ToString(r) \o "_" \o ToString(i),
     function |-> [name |-> "search_course_content", arguments |-> arguments]]
ToolCallLists(r) ==
    UNION {{[i \in 1..n |-> ToolCall(r, i, a[i])] : a \in [1..n -> {ValidJson, MalformedJson}]} :
                n \in 0..MaxBlocks}
OpenAIResponses(r) ==
    {[choices |-> <<>>]} \cup
    {[choices |-> <<[message |-> [content |-> c, tool_calls |-> tc]]>>] :
        c \in {None, Text(r, 0)}, tc \in ToolCallLists(r)}

\* Failures of a provider call.  `cause` is what the provider signalled
\* (throttling, a rejected credential, anything else) and `message` the text
\* of the exception, which quotes the provider's response body.  The native
\* client raises an APIStatusError carrying the HTTP status, or an
\* APIConnectionError when no response arrived; aisuite wraps every failure
\* of its provider in an LLMError whose only content is the message.
Throttled == "throttled"
InvalidCredential == "invalid credential"
Unavailable == "unavailable"
Causes == {Throttled, InvalidCredential, Unavailable}
StatusOf(cause) ==
    CASE cause = Throttled -> 429
      [] cause = InvalidCredential -> 401
      [] OTHER -> 500
ErrorBody(cause) == "Error code: " \o ToString(StatusOf(cause)) \o " - " \o cause
AnthropicErrors ==
    {[type |-> "anthropic.APIStatusError", status_code |-> StatusOf(c), cause |-> c,
      message |-> ErrorBody(c)] : c \in Causes}
    \cup {[type |-> "anthropic.APIConnectionError", status_code |-> 0, cause |-> Unavailable,
            message |-> "Connection error."]}
AisuiteErrors ==
    {[type |-> "aisuite.LLMError", status_code |-> 0, cause |-> c,
      message |-> "An error occurred: " \o ErrorBody(c)] : c \in Causes}

Response(r) == [kind |-> "response", response |-> r]
Failure(e) == [kind |-> "error", exc |-> e]

\* What the provider may answer to the request of round r.
ProviderReplies(provider_mode, r) ==
    IF provider_mode = "anthropic"
    THEN {Response(x) : x \in AnthropicResponses(r)} \cup {Failure(e) : e \in AnthropicErrors}
    ELSE {Response(x) : x \in OpenAIResponses(r)} \cup {Failure(e) : e \in AisuiteErrors}

\* What the k-th execute_tool invocation of a call may do: return a text or raise.
ToolText(k) == [tool_result |-> "result " \o ToString(k)]
ToolError(k) == [type |-> "ToolError", message |-> "tool failure " \o ToString(k)]
ToolOutcomes(k) == {Ok(ToolText(k)), Raise(ToolError(k))}

\* json.loads on the argument payloads above.
json_loads(s) ==
    IF s = ValidJson
    THEN Ok([query |-> "MCP"])
    ELSE Raise([type |-> "json.JSONDecodeError", message |-> "Expecting value"])

(***************************************************************************)
(* The state of one call of generate_response                              *)
(***************************************************************************)
IdleLocals ==
    [pc |-> "idle",
     query |-> "", conversation_history |-> None, tools |-> None, tool_manager |-> None,
     api_params |-> None, response |-> None,
     messages |-> <<>>, tool_results |-> <<>>, idx |-> 0,
     final_params |-> None, final_response |-> None,
     outcome |-> None]

Returned(v) == [kind |-> "return", value |-> v]
Raises(e) == [kind |-> "raise", exc |-> e]

\* The call returns v / raises e: a thread state st is
\* [l |-> its locals, sent |-> ..., executed |-> ..., self |-> the generator].
Finish(st, result) ==
    [st EXCEPT !.l.pc = "done",
               !.l.outcome = IF result.ok THEN Returned(result.value) ELSE Raises(result.exc)]

(***************************************************************************)
(* generate_response: request assembly                                     *)
(***************************************************************************)
SYSTEM_PROMPT == <<"SYSTEM_PROMPT">>
PreviousConversation == <<"Previous conversation:">>

\* (faulty variant: the section is added whenever a history object is passed)
system_content_AnyHistory(conversation_history) ==
    IF ~IsNone(conversation_history)
    THEN SYSTEM_PROMPT \o PreviousConversation \o conversation_history.val
    ELSE SYSTEM_PROMPT

system_content(conversation_history) ==
    IF Truthy(conversation_history)
    THEN SYSTEM_PROMPT \o PreviousConversation \o conversation_history.val
    ELSE SYSTEM_PROMPT

AnthropicApiParams(base_params, query, system, tools) ==
    LET p == [messages |-> <<[role |-> "user", content |-> query]>>, system |-> system]
             @@ base_params
    IN  IF Truthy(tools)
        THEN [tools |-> tools.val, tool_choice |-> [type |-> "auto"]] @@ p
        ELSE p

OpenAIApiParams(model, query, system, tools, tool_manager) ==
    LET p == [model |-> Str(model),
              messages |-> <<[role |-> "system", content |-> system],
                             [role |-> "user", content |-> query]>>,
              temperature |-> 0]
    IN  IF Truthy(tools) /\ ~IsNone(tool_manager)
        THEN [tools |-> tools.val, tool_choice |-> "auto"] @@ p
        ELSE p

\* _convert_tools_to_openai_format: one function-typed spec per native spec,
\* in order.  No statement of the class calls it.
_convert_tools_to_openai_format(anthropic_tools) ==
    [i \in 1..Len(anthropic_tools) |->
        [type |-> "function",
         function |-> [name |-> anthropic_tools[i].name,
                       description |-> anthropic_tools[i].description,
                       parameters |-> anthropic_tools[i].input_schema]]]

\* response.content[0].text
FirstBlockText(response) ==
    IF Len(response.content) = 0 THEN Raise(Exc("IndexError"))
    ELSE IF "text" \in DOMAIN response.content[1] THEN Ok(response.content[1].text)
    ELSE Raise(Exc("AttributeError"))

\* response.choices[0].message.content if response and response.choices else ""
MessageContent(response) ==
    IF Len(response.choices) > 0 THEN Ok(response.choices[1].message.content) ELSE Ok(Str(""))

\* The tests that send generate_response into the tool round.
\* (faulty variant: the native test looks at the stop signal alone)
IsAnthropicToolUse_StopReasonOnly(response, tool_manager) ==
    response.stop_reason = "tool_use"

IsAnthropicToolUse(response, tool_manager) ==
    response.stop_reason = "tool_use" /\ ~IsNone(tool_manager)

IsOpenAIToolCall(response, tool_manager) ==
    /\ Len(response.choices) > 0
    /\ Len(response.choices[1].message.tool_calls) > 0
    /\ ~IsNone(tool_manager)

(***************************************************************************)
(* The tool round                                                          *)
(***************************************************************************)
\* The handler calls tool_manager.execute_tool(name, **kwargs) for the call
\* at position i and waits for it.  `id` records which invocation the handler
\* was serving; `outcome` is filled in when the executor answers.
ExecuteTool(st, i, name, kwargs, id) ==
    [st EXCEPT !.l.pc = "execute_tool",
               !.l.idx = i,
               !.executed = Append(@, [name |-> name, kwargs |-> kwargs, id |-> id,
                                       outcome |-> None])]

\* The handler hands final_params to the provider client and waits.
SendFinal(st, final_params) ==
    [st EXCEPT !.l.pc = "final_create",
               !.l.final_params = final_params,
               !.sent = Append(@, final_params)]

\* _handle_tool_execution: final_params = {**self.base_params, "messages", "system"}
\* (faulty variant: spreads the first request's parameters, tools included)
AnthropicFinalParams_FromApiParams(self_base_params, base_params, messages) ==
    [messages |-> messages, system |-> base_params.system] @@ base_params

AnthropicFinalParams(self_base_params, base_params, messages) ==
    [messages |-> messages, system |-> base_params.system] @@ self_base_params

\* _handle_openai_tool_execution: final_params = {"model", "messages", "temperature"}
\* (faulty variant: the follow-up leaves the temperature to the provider's default)
OpenAIFinalParams_DefaultTemperature(base_params, messages) ==
    [model |-> base_params.model, messages |-> messages]

OpenAIFinalParams(base_params, messages) ==
    [model |-> base_params.model, messages |-> messages,
     temperature |-> base_params.temperature]

\* Position of the first tool_use block at or after i (Len + 1 when none).
RECURSIVE NextToolUse(_, _)
NextToolUse(content, i) ==
    IF i > Len(content) THEN i
    ELSE IF content[i].type = "tool_use" THEN i
    ELSE NextToolUse(content, i + 1)

\* _handle_tool_execution, after the loop: the batched tool-result turn and
\* the follow-up request.
\* (faulty variant: the result turn is appended even when it is empty)
AnthropicFollowUp_EmptyResultTurn(self, st) ==
    LET messages == Append(st.l.messages, [role |-> "user", content |-> st.l.tool_results])
    IN  SendFinal([st EXCEPT !.l.messages = messages],
                  AnthropicFinalParams(self.base_params, st.l.api_params, messages))

AnthropicFollowUp(self, st) ==
    LET messages == IF Len(st.l.tool_results) > 0
                    THEN Append(st.l.messages, [role |-> "user", content |-> st.l.tool_results])
                    ELSE st.l.messages
    IN  SendFinal([st EXCEPT !.l.messages = messages],
                  AnthropicFinalParams(self.base_params, st.l.api_params, messages))

\* _handle_tool_execution: `for content_block in initial_response.content`,
\* resumed at block i, up to the next execute_tool call or the end of the loop.
AnthropicLoop(self, st, i) ==
    LET content == st.l.response.content
        j == NextToolUse(content, i)
    IN  IF j <= Len(content)
        THEN ExecuteTool(st, j, content[j].name, content[j].input, content[j].id)
        ELSE AnthropicFollowUp(self, st)

\* (faulty variant: the echoed assistant turn keeps the tool_use blocks only)
_handle_tool_execution_TextDropped(self, st) ==
    AnthropicLoop(self,
                  [st EXCEPT !.l.messages = Append(st.l.api_params.messages,
                                 [role |-> "assistant",
                                  content |-> LET IsToolUse(b) == b.type = "tool_use"
                                              IN  SelectSeq(st.l.response.content, IsToolUse)]),
                             !.l.tool_results = <<>>],
                  1)

\* _handle_tool_execution, up to its first call out.
_handle_tool_execution(self, st) ==
    AnthropicLoop(self,
                  [st EXCEPT !.l.messages = Append(st.l.api_params.messages,
                                 [role |-> "assistant", content |-> st.l.response.content]),
                             !.l.tool_results = <<>>],
                  1)

\* The tool-role turns of _handle_openai_tool_execution.
OpenAIToolMessage(tool_call, tool_result) ==
    [role |-> "tool", tool_call_id |-> tool_call.id, content |-> tool_result]

\* (faulty variant: the error turn loses the invocation id)
OpenAIErrorMessage_Anonymous(tool_call, e) ==
    [role |-> "tool", tool_call_id |-> "", content |-> [error_executing_tool |-> e.message]]

OpenAIErrorMessage(tool_call, e) ==
    [role |-> "tool", tool_call_id |-> tool_call.id,
     content |-> [error_executing_tool |-> e.message]]

OpenAIFollowUp(self, st) ==
    SendFinal(st, OpenAIFinalParams(st.l.api_params, st.l.messages))

\* (faulty variant: json.loads sits outside the per-call try, so a payload
\* it rejects leaves the handler)
OpenAILoop_ParseOutsideTry(self, st, i) ==
    LET tool_calls == st.l.response.choices[1].message.tool_calls
    IN  IF i > Len(tool_calls)
        THEN OpenAIFollowUp(self, st)
        ELSE LET tool_call == tool_calls[i]
                 function_args == json_loads(tool_call.function.arguments)
             IN  IF function_args.ok
                 THEN ExecuteTool(st, i, tool_call.function.name, function_args.value,
                                  tool_call.id)
                 ELSE Finish(st, function_args)

\* _handle_openai_tool_execution: `for tool_call in ...tool_calls`, resumed at
\* call i: a payload json.loads rejects gets its error turn and the loop goes
\* on; a parsed one is handed to the executor.
RECURSIVE OpenAILoop(_, _, _)
OpenAILoop(self, st, i) ==
    LET tool_calls == st.l.response.choices[1].message.tool_calls
    IN  IF i > Len(tool_calls)
        THEN OpenAIFollowUp(self, st)
        ELSE LET tool_call == tool_calls[i]
                 function_args == json_loads(tool_call.function.arguments)
             IN  IF function_args.ok
                 THEN ExecuteTool(st, i, tool_call.function.name, function_args.value,
                                  tool_call.id)
                 ELSE OpenAILoop(self,
                          [st EXCEPT !.l.messages =
                               Append(@, OpenAIErrorMessage(tool_call, function_args.exc))],
                          i + 1)

_handle_openai_tool_execution(self, st) ==
    LET message == st.l.response.choices[1].message
    IN  OpenAILoop(self,
                   [st EXCEPT !.l.messages = Append(st.l.api_params.messages,
                                  [role |-> "assistant", content |-> message.content,
                                   tool_calls |-> message.tool_calls])],
                   1)

(***************************************************************************)
(* generate_response                                                       *)
(***************************************************************************)
\* (faulty variant: api_params is self.base_params itself, updated in place,
\* instead of a copy of it)
generate_response_InPlace(self, query, conversation_history, tools, tool_manager) ==
    LET system == system_content(conversation_history)
        api_params == IF self.provider_mode = "anthropic"
                      THEN AnthropicApiParams(self.base_params, query, system, tools)
                      ELSE OpenAIApiParams(self.model, query, system, tools, tool_manager)
    IN  [l |-> [IdleLocals EXCEPT !.pc = "create",
                                  !.query = query,
                                  !.conversation_history = conversation_history,
                                  !.tools = tools,
                                  !.tool_manager = tool_manager,
                                  !.api_params = api_params],
         sent |-> <<api_params>>,
         executed |-> <<>>,
         self |-> IF self.provider_mode = "anthropic"
                  THEN [self EXCEPT !.base_params = api_params]
                  ELSE self]

\* generate_response up to its first provider call.
generate_response(self, query, conversation_history, tools, tool_manager) ==
    LET system == system_content(conversation_history)
        api_params == IF self.provider_mode = "anthropic"
                      THEN AnthropicApiParams(self.base_params, query, system, tools)
                      ELSE OpenAIApiParams(self.model, query, system, tools, tool_manager)
    IN  [l |-> [IdleLocals EXCEPT !.pc = "create",
                                  !.query = query,
                                  !.conversation_history = conversation_history,
                                  !.tools = tools,
                                  !.tool_manager = tool_manager,
                                  !.api_params = api_params],
         sent |-> <<api_params>>,
         executed |-> <<>>,
         self |-> self]

\* A provider call raised: every except clause around the two create calls
\* logs and re-raises.
\* (faulty variant: the failed request is sent again)
CreateRaised_Retry(st, e) ==
    [st EXCEPT !.sent = Append(@, st.sent[Len(st.sent)])]

\* (faulty variant: the failure is swallowed and an empty answer returned)
CreateRaised_EmptyAnswer(st, e) == Finish(st, Ok(Str("")))

CreateRaised(st, e) == Finish(st, Raise(e))

\* generate_response after the first create call answered.
AfterCreate(self, st, reply) ==
    IF reply.kind = "error" THEN CreateRaised(st, reply.exc)
    ELSE LET response == reply.response
             st1 == [st EXCEPT !.l.response = response]
         IN  IF self.provider_mode = "anthropic"
             THEN IF IsAnthropicToolUse(response, st.l.tool_manager)
                  THEN _handle_tool_execution(self, st1)
                  ELSE Finish(st1, FirstBlockText(response))
             ELSE IF IsOpenAIToolCall(response, st.l.tool_manager)
                  THEN _handle_openai_tool_execution(self, st1)
                  ELSE Finish(st1, MessageContent(response))

\* (faulty variant: the native result descriptor is put in front of the
\* descriptors collected so far)
AfterExecuteTool_ResultsPrepended(self, st, o) ==
    LET st1 == [st EXCEPT !.executed[Len(st.executed)].outcome = o]
        i == st.l.idx
    IN  IF self.provider_mode = "anthropic"
        THEN IF o.ok
             THEN AnthropicLoop(self,
                      [st1 EXCEPT !.l.tool_results =
                           <<[type |-> "tool_result",
                              tool_use_id |-> st.l.response.content[i].id,
                              content |-> o.value]>> \o @],
                      i + 1)
             ELSE Finish(st1, o)
        ELSE LET tool_call == st.l.response.choices[1].message.tool_calls[i]
             IN  OpenAILoop(self,
                     [st1 EXCEPT !.l.messages =
                          Append(@, IF o.ok THEN OpenAIToolMessage(tool_call, o.value)
                                    ELSE OpenAIErrorMessage(tool_call, o.exc))],
                     i + 1)

\* The tool round after execute_tool answered with outcome o.  The native
\* loop has no except clause: a raise leaves generate_response.  The
\* function-calling loop turns it into an error turn.
AfterExecuteTool(self, st, o) ==
    LET st1 == [st EXCEPT !.executed[Len(st.executed)].outcome = o]
        i == st.l.idx
    IN  IF self.provider_mode = "anthropic"
        THEN IF o.ok
             THEN AnthropicLoop(self,
                      [st1 EXCEPT !.l.tool_results =
                           Append(@, [type |-> "tool_result",
                                      tool_use_id |-> st.l.response.content[i].id,
                                      content |-> o.value])],
                      i + 1)
             ELSE Finish(st1, o)
        ELSE LET tool_call == st.l.response.choices[1].message.tool_calls[i]
             IN  OpenAILoop(self,
                     [st1 EXCEPT !.l.messages =
                          Append(@, IF o.ok THEN OpenAIToolMessage(tool_call, o.value)
                                    ELSE OpenAIErrorMessage(tool_call, o.exc))],
                     i + 1)

\* The tool round after the follow-up create call answered.
AfterFinalCreate(self, st, reply) ==
    IF reply.kind = "error" THEN CreateRaised(st, reply.exc)
    ELSE LET st1 == [st EXCEPT !.l.final_response = reply.response]
         IN  IF self.provider_mode = "anthropic"
             THEN Finish(st1, FirstBlockText(reply.response))
             ELSE Finish(st1, MessageContent(reply.response))

(***************************************************************************)
(* backend/app.py: POST /api/query                                         *)
(***************************************************************************)
\* What the endpoint answers: the QueryResponse body (status 200) or the
\* HTTPException the handler raised.
QueryResponse(answer) == [status_code |-> 200, answer |-> answer, detail |-> ""]
HTTPException(status_code, detail) ==
    [status_code |-> status_code, answer |-> None, detail |-> detail]

\* rag_system.query(query, session_id): the answer is what generate_response
\* returned; a raise of generate_response leaves rag_system.query unchanged.
rag_system_query(outcome) == outcome

\* except anthropic.APIStatusError / except anthropic.AnthropicError
IsAPIStatusError(e) == e.type = "anthropic.APIStatusError"
IsAnthropicError(e) ==
    e.type \in {"anthropic.APIStatusError", "anthropic.APIConnectionError"}

\* class QueryResponse: `answer: str` rejects None with a ValidationError.
IsStr(v) == ~IsNone(v)

\* (faulty variant: the AnthropicError clause hands str(e) to the client)
query_documents_ExceptionText(result) ==
    IF result.kind = "return"
    THEN IF IsStr(result.value)
         THEN QueryResponse(result.value)
         ELSE HTTPException(500, "Internal server error.")
    ELSE IF IsAPIStatusError(result.exc)
         THEN IF result.exc.status_code = 429
              THEN HTTPException(429, "Rate limit exceeded. Please try again later.")
              ELSE IF result.exc.status_code = 401
                   THEN HTTPException(502, "Authentication failed with AI service.")
                   ELSE HTTPException(502, "AI service temporarily unavailable.")
         ELSE IF IsAnthropicError(result.exc)
              THEN HTTPException(502, result.exc.message)
              ELSE HTTPException(500, "Internal server error.")

\* query_documents from the return of rag_system.query on: the try body's
\* QueryResponse, or the except clause that matches.
query_documents(result) ==
    IF result.kind = "return"
    THEN IF IsStr(result.value)
         THEN QueryResponse(result.value)
         ELSE HTTPException(500, "Internal server error.")
    ELSE IF IsAPIStatusError(result.exc)
         THEN IF result.exc.status_code = 429
              THEN HTTPException(429, "Rate limit exceeded. Please try again later.")
              ELSE IF result.exc.status_code = 401
                   THEN HTTPException(502, "Authentication failed with AI service.")
                   ELSE HTTPException(502, "AI service temporarily unavailable.")
         ELSE IF IsAnthropicError(result.exc)
              THEN HTTPException(502, "AI service error occurred.")
              ELSE HTTPException(500, "Internal server error.")

(***************************************************************************)
(* Actions                                                                 *)
(***************************************************************************)
AisuiteModule == [kind |-> "module aisuite"]
NotConstructed == [state |-> "none"]

\* (faulty variant: api_params kept in an attribute of the shared generator,
\* so a call reads the parameters of the other call in progress)
ThreadState_SharedParams(t) ==
    LET o == CHOOSE u \in ThreadIds : u # t
    IN  [l |-> IF loc[o].pc = "idle" THEN loc[t]
               ELSE [loc[t] EXCEPT !.api_params = loc[o].api_params],
         sent |-> sent[t], executed |-> executed[t], self |-> gen]

\* A call's frame, and the generator it runs on.
ThreadState(t) ==
    [l |-> loc[t], sent |-> sent[t], executed |-> executed[t], self |-> gen]

\* A step of call t leaves it in st; when generate_response is over, the
\* endpoint answers in the same step.
SetThread(t, st) ==
    /\ loc' = [loc EXCEPT ![t] = st.l]
    /\ sent' = [sent EXCEPT ![t] = st.sent]
    /\ executed' = [executed EXCEPT ![t] = st.executed]
    /\ gen' = st.self
    /\ http' = [http EXCEPT ![t] = IF st.l.pc = "done"
                                   THEN query_documents(rag_system_query(st.l.outcome))
                                   ELSE None]

\* rag_system builds AIGenerator(config).
Construct ==
    /\ gen.state = "none"
    /\ gen' = AIGenerator_init(config, ai)
    /\ UNCHANGED <<ai, config, loc, sent, replies, executed, http>>
    /\ UNCHANGED <<maskVars, envVars, webVars>>

\* Caller t enters generate_response with arguments from the given sets.
StartWith(t, histories, toolLists, toolManagers) ==
    /\ gen.state = "constructed"
    /\ loc[t].pc = "idle"
    /\ \E h \in histories, tools \in toolLists, tm \in toolManagers :
           SetThread(t, generate_response(gen, QueryOf(t), h, tools, tm))
    /\ UNCHANGED <<ai, config, replies>>
    /\ UNCHANGED <<maskVars, envVars, webVars>>

\* A caller enters generate_response.
StartCall(t) == StartWith(t, Histories, ToolLists, ToolManagers)

\* The provider answers the first request.
ProviderAnswers(t) ==
    /\ loc[t].pc = "create"
    /\ \E reply \in ProviderReplies(gen.provider_mode, RequestNo(t, 1)) :
           /\ SetThread(t, AfterCreate(gen, ThreadState(t), reply))
           /\ replies' = [replies EXCEPT ![t] = Append(@, reply)]
    /\ UNCHANGED <<ai, config>>
    /\ UNCHANGED <<maskVars, envVars, webVars>>

\* The tool executor answers the pending execute_tool call.
ToolAnswers(t) ==
    /\ loc[t].pc = "execute_tool"
    /\ \E o \in ToolOutcomes(ExecNo(t, Len(executed[t]))) :
           SetThread(t, AfterExecuteTool(gen, ThreadState(t), o))
    /\ UNCHANGED <<ai, config, replies>>
    /\ UNCHANGED <<maskVars, envVars, webVars>>

\* The provider answers the follow-up request with one of the given replies.
FinalAnswerFrom(t, answers) ==
    /\ loc[t].pc = "final_create"
    /\ \E reply \in answers :
           /\ SetThread(t, AfterFinalCreate(gen, ThreadState(t), reply))
           /\ replies' = [replies EXCEPT ![t] = Append(@, reply)]
    /\ UNCHANGED <<ai, config>>
    /\ UNCHANGED <<maskVars, envVars, webVars>>

\* The provider answers the follow-up request.
ProviderAnswersFinal(t) ==
    FinalAnswerFrom(t, ProviderReplies(gen.provider_mode, RequestNo(t, 2)))

\* The caller has taken the result; the call's frame is gone.
CallEnds(t) ==
    /\ loc[t].pc = "done"
    /\ loc' = [loc EXCEPT ![t] = IdleLocals]
    /\ sent' = [sent EXCEPT ![t] = <<>>]
    /\ replies' = [replies EXCEPT ![t] = <<>>]
    /\ executed' = [executed EXCEPT ![t] = <<>>]
    /\ http' = [http EXCEPT ![t] = None]
    /\ UNCHANGED <<ai, config, gen>>
    /\ UNCHANGED <<maskVars, envVars, webVars>>

\* The parts of the state a specification does not exercise.
MaskIdle == mask_arg = None /\ mask_result = None
EnvIdle == environ = None /\ class_defaults = None /\ built_environ = None
WebIdle == http_request = None /\ http_response = None

InitWith(cfgs) ==
    /\ MaskIdle /\ EnvIdle /\ WebIdle
    /\ ai \in {None, AisuiteModule}
    /\ config \in cfgs
    /\ gen = NotConstructed
    /\ loc = [t \in ThreadIds |-> IdleLocals]
    /\ sent = [t \in ThreadIds |-> <<>>]
    /\ replies = [t \in ThreadIds |-> <<>>]
    /\ executed = [t \in ThreadIds |-> <<>>]
    /\ http = [t \in ThreadIds |-> None]

\* One generator serving one caller at a time.
Init == InitWith(QueryConfigs)

Next ==
    \/ Construct
    \/ StartCall(1)
    \/ ProviderAnswers(1)
    \/ ToolAnswers(1)
    \/ ProviderAnswersFinal(1)
    \/ CallEnds(1)

Spec == Init /\ [][Next]_vars

\* Construction alone, over every assignment of the credential slots.
InitCtor == InitWith(Configs)

NextCtor == Construct

SpecCtor == InitCtor /\ [][NextCtor]_vars

\* Two callers on one generator, as app.py's endpoint runs them: each passes
\* its own history, the tool specs and the tool executor.
HistoryOf(t) == Str(<<"history of caller " \o ToString(t)>>)
ConcConfigs ==
    {[NoKeys EXCEPT ![KeySlots[i]] = LongKey] : i \in 1..2}

InitConc == InitWith(ConcConfigs)

StartCallConc(t) == StartWith(t, {HistoryOf(t)}, {List(<<SearchTool>>)}, {ToolManager})

\* The follow-up only ends the call, so here the provider answers it with a
\* text or with a failure.
FollowUpReplies(provider_mode, r) ==
    IF provider_mode = "anthropic"
    THEN {Response([stop_reason |-> "end_turn", content |-> <<TextBlock(r, 1)>>]),
          Failure(CHOOSE e \in AnthropicErrors : e.cause = Throttled)}
    ELSE {Response([choices |-> <<[message |-> [content |-> Text(r, 0), tool_calls |-> <<>>]]>>]),
          Failure(CHOOSE e \in AisuiteErrors : e.cause = Throttled)}

FollowUpAnswersConc(t) ==
    FinalAnswerFrom(t, FollowUpReplies(gen.provider_mode, RequestNo(t, 2)))

NextConc ==
    \/ Construct
    \/ \E t \in ThreadIds :
           \/ StartCallConc(t)
           \/ ProviderAnswers(t)
           \/ ToolAnswers(t)
           \/ FollowUpAnswersConc(t)
           \/ CallEnds(t)

SpecConc == InitConc /\ [][NextConc]_vars

\* The credential variables of the process environment and the Config
\* objects made from them, as test_multi_llm_rag.py drives them: config.py is
\* imported once, the script deletes and restores variables, and each test
\* builds its generator from a fresh Config().
EnvSlots == {KeySlots[i] : i \in 1..4}

Environs == [EnvSlots -> {None, LongKey}]

\* os.getenv(name, default)
getenv(env, name, default) == IF IsNone(env[name]) THEN default ELSE env[name]

\* The body of class Config runs at import: every credential attribute gets
\* the value os.getenv returns at that moment.
ConfigClass(env) ==
    Config(getenv(env, "OPENAI_API_KEY", Str(<<>>)),
           getenv(env, "ANTHROPIC_API_KEY", Str(<<>>)),
           getenv(env, "GOOGLE_API_KEY", Str(<<>>)),
           getenv(env, "XAI_API_KEY", Str(<<>>)))

\* Config(): the dataclass __init__ gives each credential field its class
\* attribute as default.
Config_new(defaults) ==
    [name \in EnvSlots |-> defaults[name]]

InitEnv ==
    /\ MaskIdle /\ WebIdle
    /\ ai \in {None, AisuiteModule}
    /\ environ \in Environs
    /\ class_defaults = ConfigClass(environ)
    /\ config = Config_new(class_defaults)
    /\ built_environ = None
    /\ gen = NotConstructed
    /\ loc = [t \in ThreadIds |-> IdleLocals]
    /\ sent = [t \in ThreadIds |-> <<>>]
    /\ replies = [t \in ThreadIds |-> <<>>]
    /\ executed = [t \in ThreadIds |-> <<>>]
    /\ http = [t \in ThreadIds |-> None]

\* del os.environ[name]
DelEnv(name) ==
    /\ ~IsNone(environ[name])
    /\ environ' = [environ EXCEPT ![name] = None]
    /\ UNCHANGED <<class_defaults, built_environ, genVars, maskVars, webVars>>

\* os.environ[name] = value (the secret the variable held before, or a new one)
SetEnv(name) ==
    /\ IsNone(environ[name])
    /\ environ' = [environ EXCEPT ![name] = LongKey]
    /\ UNCHANGED <<class_defaults, built_environ, genVars, maskVars, webVars>>

\* test_rag_with_provider: config = Config(); RAGSystem(config) builds
\* AIGenerator(config).
BuildFromFreshConfig ==
    /\ config' = Config_new(class_defaults)
    /\ gen' = AIGenerator_init(config', ai)
    /\ built_environ' = environ
    /\ UNCHANGED <<ai, loc, sent, replies, executed, http>>
    /\ UNCHANGED <<environ, class_defaults, maskVars, webVars>>

NextEnv ==
    \/ \E name \in EnvSlots : DelEnv(name)
    \/ \E name \in EnvSlots : SetEnv(name)
    \/ BuildFromFreshConfig

SpecEnv == InitEnv /\ [][NextEnv]_vars

(***************************************************************************)
(* backend/app.py: the application and its middleware                      *)
(***************************************************************************)
\* config.ALLOWED_HOSTS and config.ALLOWED_ORIGINS (the defaults).
ALLOWED_HOSTS == {"localhost", "127.0.0.1"}
ALLOWED_ORIGINS == {"http://localhost:3000", "http://localhost:8000"}

\* Requests: the Host header, the method, the path and the Origin header
\* (None when the request has none).
Hosts == {"localhost", "evil.example"}
Methods == {"GET", "POST", "OPTIONS"}
Paths == {"/api/query", "/api/courses", "/health", "/api/metrics", "/", "/missing.html"}
Origins == {None, Str("http://localhost:3000"), Str("http://evil.example")}
Requests == [host : Hosts, method : Methods, path : Paths, origin : Origins]

\* A response: status, body and headers (a function from header names).
HttpResponse(status_code, content_type, body) ==
    [status_code |-> status_code, body |-> body,
     headers |-> ("content-type" :> content_type)]
JSONResponse(status_code, body) == HttpResponse(status_code, "application/json", body)

\* What the route's own code hands back: the exception handlers turn an
\* HTTPException into a JSON response with its status and detail.
EndpointResponse(h) ==
    IF h.status_code = 200
    THEN JSONResponse(200, "answer")
    ELSE JSONResponse(h.status_code, h.detail)

\* slowapi's _rate_limit_exceeded_handler, and FastAPI's answer to a body
\* that fails QueryRequest validation.
RateLimitExceeded == JSONResponse(429, "Rate limit exceeded")
RequestValidationError == JSONResponse(422, "validation error")

\* What rag_system.query may hand query_documents.
QueryResults ==
    {Returned(Text(1, 1)), Returned(None), Raises(Exc("IndexError"))}
    \cup {Raises(e) : e \in AnthropicErrors \cup AisuiteErrors}

\* The answers each route can give.
RouteResponses(method, path) ==
    CASE path = "/api/query" /\ method = "POST" ->
             {RateLimitExceeded, RequestValidationError}
             \cup {EndpointResponse(query_documents(r)) : r \in QueryResults}
      [] path = "/api/courses" /\ method = "GET" ->
             {RateLimitExceeded, JSONResponse(200, "course stats"),
              EndpointResponse(HTTPException(500, "Failed to retrieve course statistics."))}
      [] path = "/health" /\ method = "GET" ->
             {JSONResponse(200, "healthy")}
      [] path = "/api/metrics" /\ method = "GET" ->
             {RateLimitExceeded, JSONResponse(200, "metrics"),
              EndpointResponse(HTTPException(500, "Metrics unavailable."))}
      [] path = "/" /\ method = "GET" ->
             {HttpResponse(200, "text/html", "index.html")}
      [] path = "/missing.html" /\ method = "GET" ->
             {HttpResponse(404, "text/plain", "Not Found")}
      [] OTHER ->
             {HttpResponse(405, "text/plain", "Method Not Allowed")}

\* TrustedHostMiddleware(allowed_hosts=config.ALLOWED_HOSTS)
TrustedHostMiddleware(request, inner) ==
    IF request.host \in ALLOWED_HOSTS
    THEN inner
    ELSE HttpResponse(400, "text/plain", "Invalid host header")

\* CORSMiddleware(allow_origins=config.ALLOWED_ORIGINS, ...): a preflight
\* request is answered by the middleware itself; any other request with an
\* Origin header gets the CORS headers added to the inner response.
CORSMiddleware(request, inner) ==
    IF IsNone(request.origin) THEN inner
    ELSE IF request.method = "OPTIONS"
         THEN IF request.origin.val \in ALLOWED_ORIGINS
              THEN [HttpResponse(200, "text/plain", "OK") EXCEPT
                        !.headers = ("access-control-allow-origin" :> request.origin.val) @@ @]
              ELSE HttpResponse(400, "text/plain", "Disallowed CORS origin")
         ELSE IF request.origin.val \in ALLOWED_ORIGINS
              THEN [inner EXCEPT
                        !.headers = ("access-control-allow-origin" :> request.origin.val) @@ @]
              ELSE inner

\* add_security_headers: response = await call_next(request); six headers set.
SecurityHeaders ==
    ("X-Content-Type-Options" :> "nosniff")
    @@ ("X-Frame-Options" :> "DENY")
    @@ ("X-XSS-Protection" :> "1; mode=block")
    @@ ("Referrer-Policy" :> "strict-origin-when-cross-origin")
    @@ ("Content-Security-Policy" :>
            "default-src 'self'; "
            \o "script-src 'self' 'unsafe-inline' https://cdn.jsdelivr.net; "
            \o "style-src 'self' 'unsafe-inline' https://fonts.googleapis.com; "
            \o "font-src 'self' https://fonts.gstatic.com; "
            \o "img-src 'self' data:; "
            \o "connect-src 'self'")
    @@ ("Strict-Transport-Security" :> "max-age=31536000; includeSubDomains")

add_security_headers(request, inner) ==
    [inner EXCEPT !.headers = SecurityHeaders @@ @]

\* (faulty variant: the middleware applied in the order of registration, the
\* first registered outermost)
app_RegistrationOrder(request, routed) ==
    TrustedHostMiddleware(request,
        CORSMiddleware(request,
            add_security_headers(request, routed)))

\* The middleware stack: each add_middleware / @app.middleware wraps what
\* was registered before it, so the last registered runs outermost.
app(request, routed) ==
    add_security_headers(request,
        CORSMiddleware(request,
            TrustedHostMiddleware(request, routed)))

GenIdle ==
    /\ ai = None
    /\ config = NoKeys
    /\ gen = NotConstructed
    /\ loc = [t \in ThreadIds |-> IdleLocals]
    /\ sent = [t \in ThreadIds |-> <<>>]
    /\ replies = [t \in ThreadIds |-> <<>>]
    /\ executed = [t \in ThreadIds |-> <<>>]
    /\ http = [t \in ThreadIds |-> None]

InitWeb ==
    /\ GenIdle /\ MaskIdle /\ EnvIdle
    /\ http_request = None
    /\ http_response = None

\* A request arrives.
Receive ==
    /\ IsNone(http_request)
    /\ http_request' \in Requests
    /\ UNCHANGED <<http_response, genVars, maskVars, envVars>>

\* The application answers it.
Serve ==
    /\ ~IsNone(http_request)
    /\ IsNone(http_response)
    /\ \E routed \in RouteResponses(http_request.method, http_request.path) :
           http_response' = app(http_request, routed)
    /\ UNCHANGED <<http_request, genVars, maskVars, envVars>>

\* The response has been sent.
Sent ==
    /\ ~IsNone(http_response)
    /\ http_request' = None
    /\ http_response' = None
    /\ UNCHANGED <<genVars, maskVars, envVars>>

NextWeb == Receive \/ Serve \/ Sent

SpecWeb == InitWeb /\ [][NextWeb]_vars

\* mask_api_key on its own, over every secret of up to MaxKeyLen characters
\* (the characters stand for one that a mask does not contain and the one it
\* is made of) and the absent secret.
KeyAlphabet == {"k", "*"}
Secrets == UNION {[1..n -> KeyAlphabet] : n \in 0..MaxKeyLen}
MaskArgs == {None} \cup {Str(k) : k \in Secrets}

InitMask ==
    /\ GenIdle /\ EnvIdle /\ WebIdle
    /\ mask_arg \in MaskArgs
    /\ mask_result = None

MaskKey ==
    /\ mask_result = None
    /\ mask_result' = Str(mask_api_key(mask_arg))
    /\ UNCHANGED <<mask_arg, genVars, envVars, webVars>>

NextMask == MaskKey

SpecMask == InitMask /\ [][NextMask]_vars

\* Construction from a configuration with one populated slot, over every
\* non-empty secret of up to MaxKeyLen characters.
LogConfigs ==
    {[NoKeys EXCEPT ![KeySlots[i]] = Str(k)] : i \in 1..4, k \in Secrets \ {<<>>}}

InitLog == InitWith(LogConfigs)

NextLog == Construct

SpecLog == InitLog /\ [][NextLog]_vars

(***************************************************************************)
(* Vocabulary of the properties                                            *)
(***************************************************************************)
\* Positions (in the priority order of KeySlots) of the populated slots.
Populated(cfg) == {i \in 1..4 : Truthy(cfg[KeySlots[i]])}
FirstPopulated(cfg) == CHOOSE i \in Populated(cfg) : \A j \in Populated(cfg) : i <= j

\* The credential slot a finished constructor run settled on: the provider
\* of the instance it built, or the slot its RuntimeError names.
SlotOfModel(model) ==
    CASE model = "openai:" \o OPENAI_MODEL -> "OPENAI_API_KEY"
      [] model = ANTHROPIC_MODEL -> "ANTHROPIC_API_KEY"
      [] model = "google:" \o GEMINI_MODEL -> "GOOGLE_API_KEY"
      [] model = "xai:" \o GROK_MODEL -> "XAI_API_KEY"
      [] OTHER -> "none"
SelectedSlot(g) == IF g.state = "constructed" THEN SlotOfModel(g.model) ELSE g.error.slot

\* The first / follow-up response of call t, once it has arrived.
HasResponse(t, r) == Len(replies[t]) >= r /\ replies[t][r].kind = "response"
ResponseOf(t, r) == replies[t][r].response

\* A tool-invocation response: the native stop signal is "tool_use"; the
\* function-calling message carries one or more tool-call descriptors.
ToolInvocation(response) ==
    IF gen.provider_mode = "anthropic"
    THEN response.stop_reason = "tool_use"
    ELSE Len(response.choices) > 0 /\ Len(response.choices[1].message.tool_calls) > 0

IsToolUseBlock(b) == b.type = "tool_use"

\* The invocation ids a response requests, in order.
RequestedIds(response) ==
    IF gen.provider_mode = "anthropic"
    THEN LET uses == SelectSeq(response.content, IsToolUseBlock)
         IN  [i \in 1..Len(uses) |-> uses[i].id]
    ELSE IF Len(response.choices) = 0 THEN <<>>
         ELSE LET calls == response.choices[1].message.tool_calls
              IN  [i \in 1..Len(calls) |-> calls[i].id]

\* The text of a response: the native response's leading text block (empty
\* when it has none), the function-calling message's content (empty when
\* the response has no choice).
TextOf(response) ==
    IF gen.provider_mode = "anthropic"
    THEN IF Len(response.content) > 0 /\ response.content[1].type = "text"
         THEN response.content[1].text
         ELSE Str("")
    ELSE IF Len(response.choices) > 0 THEN response.choices[1].message.content ELSE Str("")

\* The result entries of a request, in order, as [id, content]: the entries
\* of the batched user turn that follows the echoed assistant turn (native),
\* the tool-role turns (function calling).
ResultEntries(request) ==
    LET m == request.messages
    IN  IF gen.provider_mode = "anthropic"
        THEN IF Len(m) >= 3
             THEN [i \in 1..Len(m[3].content) |->
                      [id |-> m[3].content[i].tool_use_id, content |-> m[3].content[i].content]]
             ELSE <<>>
        ELSE [i \in 1..(Len(m) - 3) |->
                 [id |-> m[i + 3].tool_call_id, content |-> m[i + 3].content]]

Range(f) == {f[i] : i \in DOMAIN f}
Ids(entries) == [i \in 1..Len(entries) |-> entries[i].id]

Constructed == gen.state = "constructed"
Ended(t) == loc[t].pc = "done"

(***************************************************************************)
(* Properties of construction (SpecCtor)                                   *)
(***************************************************************************)
\* C1: whenever at least one credential slot holds a non-empty secret, the
\* constructor settles on the first populated slot in the order OpenAI,
\* Anthropic, Google, xAI, whatever the later slots hold, and with aisuite
\* importable it builds the generator for that provider.
C1_PriorityOrder ==
    (gen.state # "none" /\ Populated(config) # {}) =>
        /\ SelectedSlot(gen) = KeySlots[FirstPopulated(config)]
        /\ (~IsNone(ai)) => gen.state = "constructed"

C1_Witness ==
    /\ Constructed
    /\ gen.provider_mode = "anthropic"
    /\ Populated(config) = {2, 3, 4}

\* C2: construction raises ValueError exactly when all four slots are empty
\* or None, and a run that raised leaves no instance with a provider mode,
\* a model or a client.
C2_NoCredentials ==
    gen.state # "none" =>
        /\ (Populated(config) = {}) <=> (gen.state = "raised" /\ gen.error.type = "ValueError")
        /\ gen.state = "raised" => DOMAIN gen \cap {"provider_mode", "model", "client"} = {}

C2_Witness ==
    /\ gen.state = "raised"
    /\ gen.error.type = "ValueError"
    /\ IsNone(config.OPENAI_API_KEY)
    /\ config.ANTHROPIC_API_KEY = Str(<<>>)

\* C3: with aisuite not importable, a populated OpenAI, Google or xAI slot
\* that comes first makes construction raise RuntimeError naming that slot,
\* also when the Anthropic slot is populated; and an Anthropic generator is
\* only ever built when the OpenAI slot is empty.
C3_NoFallback ==
    gen.state # "none" =>
        /\ (IsNone(ai) /\ Populated(config) # {} /\ FirstPopulated(config) # 2) =>
               /\ gen.state = "raised"
               /\ gen.error = [type |-> "RuntimeError", slot |-> KeySlots[FirstPopulated(config)]]
        /\ (Constructed /\ gen.provider_mode = "anthropic") => ~Truthy(config.OPENAI_API_KEY)

C3_Witness ==
    /\ gen.state = "raised"
    /\ gen.error = [type |-> "RuntimeError", slot |-> "OPENAI_API_KEY"]
    /\ Truthy(config.ANTHROPIC_API_KEY)

(***************************************************************************)
(* Properties of generate_response (Spec)                                  *)
(***************************************************************************)
\* C4: a call whose first response is not a tool-invocation response makes
\* exactly one provider request, executes no tool and returns that
\* response's text.
C4_SingleCallReturnsText ==
    \A t \in ThreadIds :
        (Ended(t) /\ HasResponse(t, 1) /\ ~ToolInvocation(ResponseOf(t, 1))) =>
            /\ Len(sent[t]) = 1
            /\ executed[t] = <<>>
            /\ loc[t].outcome = Returned(TextOf(ResponseOf(t, 1)))

\* C5: a call given a tool executor whose first response requests n >= 1
\* tool calls makes exactly 2 provider requests and n tool executions, and
\* its follow-up request holds exactly one result entry per requested id.
C5_OneResultPerCall ==
    \A t \in ThreadIds :
        (/\ Ended(t)
         /\ HasResponse(t, 1)
         /\ ToolInvocation(ResponseOf(t, 1))
         /\ Len(RequestedIds(ResponseOf(t, 1))) >= 1
         /\ ~IsNone(loc[t].tool_manager)) =>
            LET requested == RequestedIds(ResponseOf(t, 1))
            IN  /\ Len(sent[t]) = 2
                /\ Len(executed[t]) = Len(requested)
                /\ Len(ResultEntries(sent[t][2])) = Len(requested)
                /\ Range(Ids(ResultEntries(sent[t][2]))) = Range(requested)

\* C6: a call never makes more than two provider requests, and a request
\* that failed is the call's last one: the call ends raising that failure.
C6_AtMostTwoRequests ==
    \A t \in ThreadIds :
        /\ Len(sent[t]) <= 2
        /\ \A i \in 1..Len(replies[t]) :
               replies[t][i].kind = "error" =>
                   /\ i = Len(sent[t])
                   /\ Ended(t)
                   /\ loc[t].outcome = Raises(replies[t][i].exc)

C6_Witness ==
    \E t \in ThreadIds :
        /\ Ended(t)
        /\ Len(sent[t]) = 2
        /\ replies[t][2].kind = "error"

\* C7: the follow-up request carries neither tool specs nor a tool-choice
\* setting, under both protocols.
C7_FollowUpWithoutTools ==
    \A t \in ThreadIds :
        Len(sent[t]) >= 2 => DOMAIN sent[t][2] \cap {"tools", "tool_choice"} = {}

C7_Witness ==
    \E t \in ThreadIds :
        /\ Len(sent[t]) = 2
        /\ {"tools", "tool_choice"} \subseteq DOMAIN sent[t][1]
        /\ gen.provider_mode = "anthropic"

\* C8: once the follow-up response has arrived the call has ended with two
\* requests made, returning that response's text, whatever the response
\* holds.
C8_ReturnsFollowUpText ==
    \A t \in ThreadIds :
        HasResponse(t, 2) =>
            /\ Ended(t)
            /\ Len(sent[t]) = 2
            /\ loc[t].outcome = Returned(TextOf(ResponseOf(t, 2)))

\* C9: function-calling protocol: once the first response has brought n tool
\* calls into the tool round, the loop runs to the follow-up request whatever
\* fails; that request holds exactly n tool-role turns, one per invocation
\* id; the turn of a call whose arguments do not parse or whose execution
\* raised carries the error text, the turn of any other call the executor's
\* result; and the call returns unless the follow-up request itself fails.
ExecutionsFor(t, id) == {k \in 1..Len(executed[t]) : executed[t][k].id = id}

C9_TurnIsRight(t, tool_call, entry) ==
    IF tool_call.function.arguments = MalformedJson
    THEN /\ ExecutionsFor(t, tool_call.id) = {}
         /\ DOMAIN entry.content = {"error_executing_tool"}
    ELSE \E k \in ExecutionsFor(t, tool_call.id) :
             LET o == executed[t][k].outcome
             IN  /\ ~IsNone(o)
                 /\ entry.content = IF o.ok THEN o.value
                                    ELSE [error_executing_tool |-> o.exc.message]

C9_PerCallIsolation ==
    \A t \in ThreadIds :
        (/\ Constructed
         /\ gen.provider_mode = "aisuite"
         /\ HasResponse(t, 1)
         /\ IsOpenAIToolCall(ResponseOf(t, 1), loc[t].tool_manager)) =>
            LET tool_calls == ResponseOf(t, 1).choices[1].message.tool_calls
            IN  /\ loc[t].pc \in {"execute_tool", "final_create", "done"}
                /\ loc[t].pc \in {"final_create", "done"} =>
                       /\ Len(sent[t]) = 2
                       /\ LET entries == ResultEntries(sent[t][2])
                          IN  /\ Len(entries) = Len(tool_calls)
                              /\ \A i \in 1..Len(tool_calls) :
                                     \E j \in 1..Len(entries) :
                                         /\ entries[j].id = tool_calls[i].id
                                         /\ C9_TurnIsRight(t, tool_calls[i], entries[j])
                /\ (Ended(t) /\ loc[t].outcome.kind = "raise") =>
                       replies[t][2] = Failure(loc[t].outcome.exc)
                /\ HasResponse(t, 2) => (Ended(t) /\ loc[t].outcome.kind = "return")

C9_Witness ==
    \E t \in ThreadIds :
        /\ Constructed
        /\ gen.provider_mode = "aisuite"
        /\ Ended(t)
        /\ loc[t].outcome.kind = "return"
        /\ Len(sent[t]) = 2
        /\ Len(executed[t]) = 2
        /\ ~executed[t][1].outcome.ok
        /\ executed[t][2].outcome.ok
        /\ Len(ResultEntries(sent[t][2])) = 2

\* C10: native protocol: when an execute_tool call raises, the remaining
\* tool calls are still executed, the batched result turn still has one
\* entry per invocation id, and the follow-up request is still sent.
C10_NativeBatchNotAborted ==
    \A t \in ThreadIds :
        (/\ Constructed
         /\ gen.provider_mode = "anthropic"
         /\ Ended(t)
         /\ \E k \in 1..Len(executed[t]) :
                (~IsNone(executed[t][k].outcome)) /\ ~executed[t][k].outcome.ok) =>
            /\ Len(executed[t]) = Len(RequestedIds(ResponseOf(t, 1)))
            /\ Len(sent[t]) = 2
            /\ Ids(ResultEntries(sent[t][2])) = RequestedIds(ResponseOf(t, 1))

(***************************************************************************)
(* Properties of the query endpoint (Spec)                                 *)
(***************************************************************************)
\* The messages an error answer of the endpoint may carry.
ErrorDetails ==
    {"Rate limit exceeded. Please try again later.",
     "Authentication failed with AI service.",
     "AI service temporarily unavailable.",
     "AI service error occurred.",
     "Internal server error."}

\* The exception a finished call raised came from the provider.
ProviderFailure(e) == "cause" \in DOMAIN e

\* C11: every call of the query entry point ends in exactly one of two
\* user-visible outcomes: the final answer string that generate_response
\* returned, or a single error whose message is one of a fixed set of
\* constant strings, whatever the exception's text (which quotes the
\* provider's response body) says; before the call is over nothing is
\* answered.
C11_AnswerOrClassifiedError ==
    \A t \in ThreadIds :
        IF Ended(t)
        THEN \/ /\ loc[t].outcome.kind = "return"
                /\ http[t].status_code = 200
                /\ http[t].answer = loc[t].outcome.value
                /\ ~IsNone(http[t].answer)
             \/ /\ http[t].status_code \in {429, 500, 502}
                /\ http[t].answer = None
                /\ http[t].detail \in ErrorDetails
                /\ (loc[t].outcome.kind = "raise" /\ ProviderFailure(loc[t].outcome.exc))
                       => http[t].detail # loc[t].outcome.exc.message
        ELSE http[t] = None

\* A call that failed with a provider exception carrying a message of its
\* own has been answered with the constant message of its class.
C11_Witness ==
    /\ Ended(1)
    /\ loc[1].outcome.kind = "raise"
    /\ loc[1].outcome.exc.type = "anthropic.APIConnectionError"
    /\ http[1].detail = "AI service error occurred."

\* The class of an error answer.
ErrorClass(h) ==
    CASE h.status_code = 429 -> "RateLimited"
      [] h.status_code = 502 /\ h.detail = "Authentication failed with AI service."
            -> "AuthenticationFailed"
      [] h.status_code = 502 /\ h.detail # "Authentication failed with AI service."
            -> "ProviderUnavailable"
      [] OTHER -> "ExecutionError"

\* The class the taxonomy gives a failure.
ExpectedClass(e) ==
    IF ProviderFailure(e)
    THEN CASE e.cause = Throttled -> "RateLimited"
           [] e.cause = InvalidCredential -> "AuthenticationFailed"
           [] OTHER -> "ProviderUnavailable"
    ELSE "ExecutionError"

\* C12: under either calling convention a failed call is classified by what
\* went wrong: throttling as RateLimited, a rejected credential as
\* AuthenticationFailed, any other provider-side failure as
\* ProviderUnavailable, and a fault outside the provider exchange as
\* ExecutionError.
C12_FailureClassified ==
    \A t \in ThreadIds :
        (Ended(t) /\ loc[t].outcome.kind = "raise")
            => ErrorClass(http[t]) = ExpectedClass(loc[t].outcome.exc)

\* C12 on the native convention alone.
C12_NativeFailureClassified ==
    \A t \in ThreadIds :
        (Ended(t) /\ loc[t].outcome.kind = "raise" /\ gen.provider_mode = "anthropic")
            => ErrorClass(http[t]) = ExpectedClass(loc[t].outcome.exc)

(***************************************************************************)
(* Properties of credential masking (SpecMask, SpecLog)                    *)
(***************************************************************************)
\* C13: mask_api_key returns, for a secret of 8 or more characters, its
\* first four characters, then four asterisks, then its last four
\* characters; for every shorter secret, the empty and the absent one
\* included, exactly four asterisks.
C13_MaskShape ==
    (~IsNone(mask_result)) =>
        LET m == mask_result.val
        IN  IF (~IsNone(mask_arg)) /\ Len(mask_arg.val) >= 8
            THEN LET k == mask_arg.val
                 IN  /\ Len(m) = 12
                     /\ \A i \in 1..4 : /\ m[i] = k[i]
                                        /\ m[4 + i] = "*"
                                        /\ m[8 + i] = k[Len(k) - 4 + i]
            ELSE m = <<"*", "*", "*", "*">>

\* A secret of exactly 8 characters has been masked.
C13_Witness ==
    /\ ~IsNone(mask_result)
    /\ ~IsNone(mask_arg)
    /\ Len(mask_arg.val) = 8

\* The secret of the provider the constructor selected.
SelectedSecret == config[SelectedSlot(gen)].val

\* A secret that reads like a mask: four asterisks, or 12 characters with
\* asterisks in places 5 to 8.
MaskShaped(k) ==
    \/ k = <<"*", "*", "*", "*">>
    \/ Len(k) = 12 /\ \A i \in 5..8 : k[i] = "*"

\* C14 as stated: for every non-empty secret of the selected provider the
\* text the constructor logs differs from the secret.
C14_LoggedDiffersFromSecret ==
    Constructed => gen.logged # SelectedSecret

\* C14 amended: the text the constructor logs differs from the secret of the
\* selected provider for every non-empty secret except one that already
\* reads like a mask, which is logged as it is.
C14_LoggedDiffersUnlessMaskShaped ==
    Constructed => (gen.logged = SelectedSecret <=> MaskShaped(SelectedSecret))

\* A generator was built from a 12-character secret whose fifth character
\* is not an asterisk, and its log line differs from the secret.
C14_Witness ==
    /\ Constructed
    /\ Len(SelectedSecret) = 12
    /\ SelectedSecret[5] = "k"
    /\ gen.logged # SelectedSecret

(***************************************************************************)
(* Properties of request assembly and of the generator's state (Spec)      *)
(***************************************************************************)
\* The system instruction a request carries: the `system` parameter
\* (native), the content of the leading system-role turn (function calling).
SystemOf(request) ==
    IF gen.provider_mode = "anthropic" THEN request.system ELSE request.messages[1].content

\* p is a strict prefix of s.
StrictPrefix(p, s) == Len(p) < Len(s) /\ \A i \in 1..Len(p) : s[i] = p[i]

\* C15: every request of a call carries, as its system instruction, the
\* base instruction alone when the history is absent or empty, and otherwise
\* the base instruction (a strict prefix) followed by the labelled
\* previous-conversation section that ends with the history.
C15_SystemInstruction ==
    \A t \in ThreadIds : \A r \in 1..Len(sent[t]) :
        LET h == loc[t].conversation_history
            system == SystemOf(sent[t][r])
        IN  IF IsNone(h) \/ h.val = <<>>
            THEN system = <<"SYSTEM_PROMPT">>
            ELSE /\ StrictPrefix(<<"SYSTEM_PROMPT">>, system)
                 /\ system[2] = "Previous conversation:"
                 /\ SubSeq(system, 3, Len(system)) = h.val

\* A call with a non-empty history has sent its follow-up request.
C15_Witness ==
    /\ Len(sent[1]) = 2
    /\ Truthy(loc[1].conversation_history)

\* C16: a call given no tool specs (None or an empty list), with or without
\* a tool executor, makes exactly one provider request and returns the text
\* of the response to it, under either protocol.
C16_NoToolsSingleCall ==
    \A t \in ThreadIds :
        (Ended(t) /\ HasResponse(t, 1) /\ ~Truthy(loc[t].tools)) =>
            /\ Len(sent[t]) = 1
            /\ executed[t] = <<>>
            /\ loc[t].outcome = Returned(TextOf(ResponseOf(t, 1)))

\* The native response whose text line 150 can read: its first block is a
\* text block.
LeadingTextReadable(response) ==
    gen.provider_mode = "anthropic" =>
        (Len(response.content) > 0 /\ response.content[1].type = "text")

\* C16 where the provider, offered no tool, requests none and the text of
\* its response is readable.
C16_NoToolsSingleCallReadable ==
    \A t \in ThreadIds :
        (/\ Ended(t) /\ HasResponse(t, 1) /\ ~Truthy(loc[t].tools)
         /\ ~ToolInvocation(ResponseOf(t, 1))
         /\ LeadingTextReadable(ResponseOf(t, 1))) =>
            /\ Len(sent[t]) = 1
            /\ executed[t] = <<>>
            /\ loc[t].outcome = Returned(TextOf(ResponseOf(t, 1)))

\* C17: once the generator is constructed, no step of any call of
\* generate_response, whether the call returns or raises, changes the
\* generator's provider mode, model, client or base parameters.
C17_GeneratorImmutable ==
    [][Constructed =>
          /\ gen'.provider_mode = gen.provider_mode
          /\ gen'.model = gen.model
          /\ gen'.client = gen.client
          /\ gen'.base_params = gen.base_params]_vars

\* A call on the native protocol went through its tool round and raised,
\* and the generator still holds the parameters its constructor built.
C17_Witness ==
    /\ Ended(1)
    /\ loc[1].outcome.kind = "raise"
    /\ Len(executed[1]) >= 1
    /\ gen.provider_mode = "anthropic"
    /\ DOMAIN gen.base_params = {"model", "temperature", "max_tokens"}

(***************************************************************************)
(* Properties of concurrent calls (SpecConc)                               *)
(***************************************************************************)
\* The user turn that opens a request and the assistant turn that follows it
\* in a follow-up request.
UserTurn(request) ==
    IF gen.provider_mode = "anthropic" THEN request.messages[1] ELSE request.messages[2]
AssistantTurn(request) ==
    IF gen.provider_mode = "anthropic" THEN request.messages[2] ELSE request.messages[3]

\* The assistant turn repeats what the response said.
EchoesResponse(turn, response) ==
    IF gen.provider_mode = "anthropic"
    THEN turn.content = response.content
    ELSE /\ turn.content = response.choices[1].message.content
         /\ turn.tool_calls = response.choices[1].message.tool_calls

\* The result entry reports an execution of call t for the entry's id, or
\* (function calling) the rejection of that id's argument payload.
OwnResult(t, entry) ==
    \/ \E k \in 1..Len(executed[t]) :
           /\ executed[t][k].id = entry.id
           /\ ~IsNone(executed[t][k].outcome)
           /\ IF executed[t][k].outcome.ok
              THEN entry.content = executed[t][k].outcome.value
              ELSE entry.content = [error_executing_tool |-> executed[t][k].outcome.exc.message]
    \/ /\ gen.provider_mode = "aisuite"
       /\ entry.content = [error_executing_tool |-> "Expecting value"]

\* C18: with two calls of generate_response in progress on one generator,
\* under every interleaving of their steps, every request of a call carries
\* that call's own query and history, its follow-up request echoes the
\* response to its own first request and holds only results of its own tool
\* executions for ids that response requested, and the generator stays as
\* the constructor built it.
C18_NoInterference ==
    /\ Constructed => gen = AIGenerator_init(config, ai)
    /\ \A t \in ThreadIds : \A r \in 1..Len(sent[t]) :
           LET request == sent[t][r]
           IN  /\ UserTurn(request).content = QueryOf(t)
               /\ SystemOf(request) =
                      <<"SYSTEM_PROMPT", "Previous conversation:">> \o HistoryOf(t).val
               /\ r = 2 =>
                      /\ HasResponse(t, 1)
                      /\ EchoesResponse(AssistantTurn(request), ResponseOf(t, 1))
                      /\ \A i \in 1..Len(ResultEntries(request)) :
                             /\ ResultEntries(request)[i].id
                                    \in Range(RequestedIds(ResponseOf(t, 1)))
                             /\ OwnResult(t, ResultEntries(request)[i])

\* Both calls are waiting for the answer to their follow-up request, each
\* after a tool execution of its own.
C18_Witness ==
    /\ \A t \in ThreadIds :
           /\ loc[t].pc = "final_create"
           /\ Len(executed[t]) >= 1

(***************************************************************************)
(* Properties of configuration from the environment (SpecEnv)              *)
(***************************************************************************)
\* The generator was built while the variable was set / unset.
BuiltWith(name) == (~IsNone(built_environ)) /\ ~IsNone(built_environ[name])
BuiltWithout(name) == (~IsNone(built_environ)) /\ IsNone(built_environ[name])

\* C19: a generator built from a fresh Config() while OPENAI_API_KEY is
\* removed from the environment (it was set when config.py was imported) and
\* ANTHROPIC_API_KEY is present uses the Anthropic provider, and one built
\* while OPENAI_API_KEY is set, with aisuite importable, uses OpenAI.
C19_FreshConfigFollowsEnvironment ==
    /\ (/\ BuiltWithout("OPENAI_API_KEY")
        /\ Truthy(class_defaults["OPENAI_API_KEY"])
        /\ BuiltWith("ANTHROPIC_API_KEY")
        /\ Truthy(class_defaults["ANTHROPIC_API_KEY"]))
           => (Constructed /\ gen.provider_mode = "anthropic")
    /\ (BuiltWith("OPENAI_API_KEY") /\ Truthy(class_defaults["OPENAI_API_KEY"])
            /\ ~IsNone(ai))
           => (Constructed /\ gen.model = "openai:gpt-4o")

\* What the code does instead: every generator is the one the import-time
\* class attributes select, whatever the environment holds when it is built.
C19_FreshConfigFollowsImport ==
    (~IsNone(built_environ)) =>
        /\ config = class_defaults
        /\ gen = AIGenerator_init(class_defaults, ai)

(***************************************************************************)
(* Properties of the HTTP responses (SpecWeb)                              *)
(***************************************************************************)
\* C20: every response that leaves the application, for every route, host,
\* method and outcome, error responses included, carries the six security
\* headers with their fixed values.
C20_SecurityHeaders ==
    (~IsNone(http_response)) =>
        LET h == http_response.headers
        IN  /\ {"X-Content-Type-Options", "X-Frame-Options", "X-XSS-Protection",
                "Referrer-Policy", "Content-Security-Policy",
                "Strict-Transport-Security"} \subseteq DOMAIN h
            /\ h["X-Content-Type-Options"] = "nosniff"
            /\ h["X-Frame-Options"] = "DENY"
            /\ h["X-XSS-Protection"] = "1; mode=block"
            /\ h["Referrer-Policy"] = "strict-origin-when-cross-origin"
            /\ h["Content-Security-Policy"] =
                   "default-src 'self'; script-src 'self' 'unsafe-inline' https://cdn.jsdelivr.net; style-src 'self' 'unsafe-inline' https://fonts.googleapis.com; font-src 'self' https://fonts.gstatic.com; img-src 'self' data:; connect-src 'self'"
            /\ h["Strict-Transport-Security"] = "max-age=31536000; includeSubDomains"

\* A request with a Host header outside ALLOWED_HOSTS has been refused.
C20_Witness ==
    /\ ~IsNone(http_response)
    /\ http_request.host = "evil.example"
    /\ http_response.status_code = 400

(***************************************************************************)
(* Properties of the calling convention and of the tool round (Spec)       *)
(***************************************************************************)
\* The two request shapes: the native request carries the system instruction
\* as a parameter of its own, next to max_tokens, and its turns start with
\* the user turn; the function-calling request carries the system
\* instruction as its first turn.
NativeShape(request) ==
    /\ {"system", "max_tokens"} \subseteq DOMAIN request
    /\ request.messages[1].role = "user"

FunctionCallingShape(request) ==
    /\ DOMAIN request \cap {"system", "max_tokens"} = {}
    /\ request.messages[1].role = "system"

\* C21: a constructed generator's convention is set, to native exactly when
\* the selected (first populated) slot is Anthropic's and to function
\* calling when it is OpenAI's, Google's or xAI's; and every request of
\* generate_response has the native shape exactly when the convention is
\* native, the function-calling shape otherwise.
C21_ConventionFollowsProvider ==
    Constructed =>
        LET selected == KeySlots[FirstPopulated(config)]
        IN  /\ gen.provider_mode \in {"anthropic", "aisuite"}
            /\ gen.provider_mode = "anthropic" <=> selected = "ANTHROPIC_API_KEY"
            /\ gen.provider_mode = "aisuite" <=>
                   selected \in {"OPENAI_API_KEY", "GOOGLE_API_KEY", "XAI_API_KEY"}
            /\ \A t \in ThreadIds : \A k \in 1..Len(sent[t]) :
                   /\ NativeShape(sent[t][k]) <=> gen.provider_mode = "anthropic"
                   /\ FunctionCallingShape(sent[t][k]) <=> gen.provider_mode = "aisuite"

C21_Witness ==
    /\ Constructed
    /\ FirstPopulated(config) = 3
    /\ gen.provider_mode = "aisuite"
    /\ \E t \in ThreadIds : Len(sent[t]) = 2 /\ FunctionCallingShape(sent[t][2])

\* The invocations of a response that the round hands to the executor, in
\* the order the response lists them: every tool_use block (native), every
\* tool call whose argument payload parses (function calling).
Parses(tool_call) == json_loads(tool_call.function.arguments).ok

ExecutableIds(response) ==
    IF gen.provider_mode = "anthropic"
    THEN RequestedIds(response)
    ELSE IF Len(response.choices) = 0 THEN <<>>
         ELSE Ids(SelectSeq(response.choices[1].message.tool_calls, Parses))

\* C22: a tool is executed only after the first response has arrived; the
\* executions so far are, in order, the first invocations the response
\* lists; only the latest execution can be pending; and once the follow-up
\* request is sent every invocation has been executed and has completed, and
\* the request's result entries carry the requested ids in the requested
\* order.
C22_RoundOrdering ==
    \A t \in ThreadIds :
        LET n == Len(executed[t])
        IN  /\ n > 0 =>
                   /\ HasResponse(t, 1)
                   /\ n <= Len(ExecutableIds(ResponseOf(t, 1)))
                   /\ Ids(executed[t]) = SubSeq(ExecutableIds(ResponseOf(t, 1)), 1, n)
            /\ \A k \in 1..n :
                   IsNone(executed[t][k].outcome) => (k = n /\ loc[t].pc = "execute_tool")
            /\ Len(sent[t]) = 2 =>
                   /\ HasResponse(t, 1)
                   /\ n = Len(ExecutableIds(ResponseOf(t, 1)))
                   /\ \A k \in 1..n : ~IsNone(executed[t][k].outcome)
                   /\ Ids(ResultEntries(sent[t][2])) = RequestedIds(ResponseOf(t, 1))

C22_Witness ==
    \E t \in ThreadIds :
        /\ Constructed
        /\ gen.provider_mode = "anthropic"
        /\ Len(sent[t]) = 2
        /\ Len(executed[t]) = 2
        /\ Len(ResponseOf(t, 1).content) = 2
        /\ Len(ResultEntries(sent[t][2])) = 2

\* Native follow-up request of call t: its first two turns are the initial
\* user turn and one assistant turn holding the first response's content as
\* received, and its system instruction and model are the initial request's.
NativeEchoed(t) ==
    LET first == sent[t][1]
        followup == sent[t][2]
        m == followup.messages
    IN  /\ Len(m) >= 2
        /\ Len(first.messages) = 1
        /\ m[1] = first.messages[1]
        /\ m[1] = [role |-> "user", content |-> loc[t].query]
        /\ m[2] = [role |-> "assistant", content |-> ResponseOf(t, 1).content]
        /\ followup.system = first.system
        /\ followup.model = first.model

\* Its third and last turn is one user-role turn whose content lists, in
\* order, one tool_result descriptor per tool_use block, keyed by the
\* block's id and holding what the executor returned for it.
NativeResultTurn(t) ==
    LET m == sent[t][2].messages
        uses == SelectSeq(ResponseOf(t, 1).content, IsToolUseBlock)
    IN  /\ Len(m) = 3
        /\ DOMAIN m[3] = {"role", "content"}
        /\ m[3].role = "user"
        /\ Len(m[3].content) = Len(uses)
        /\ Len(executed[t]) = Len(uses)
        /\ \A i \in 1..Len(uses) :
               m[3].content[i] = [type |-> "tool_result",
                                  tool_use_id |-> uses[i].id,
                                  content |-> executed[t][i].outcome.value]

\* C23 (as stated): every native follow-up request has exactly the three
\* turns user, echoed assistant, batched tool results.
C23_NativeFollowUpShape ==
    \A t \in ThreadIds :
        (Constructed /\ gen.provider_mode = "anthropic" /\ Len(sent[t]) = 2) =>
            /\ NativeEchoed(t)
            /\ NativeResultTurn(t)

\* C23 (amended): a native follow-up request answers a tool-invocation
\* response and starts with the user turn and the echoed assistant turn,
\* under the initial system instruction and model; the batched tool-result
\* turn follows when the response holds at least one tool_use block, and
\* with no such block the echoed assistant turn is the last turn.
C23_NativeFollowUpShapeByBlocks ==
    \A t \in ThreadIds :
        (Constructed /\ gen.provider_mode = "anthropic" /\ Len(sent[t]) = 2) =>
            /\ HasResponse(t, 1)
            /\ ResponseOf(t, 1).stop_reason = "tool_use"
            /\ NativeEchoed(t)
            /\ IF \E i \in 1..Len(ResponseOf(t, 1).content) :
                      IsToolUseBlock(ResponseOf(t, 1).content[i])
               THEN NativeResultTurn(t)
               ELSE Len(sent[t][2].messages) = 2

C23_Witness ==
    \E t \in ThreadIds :
        /\ Constructed
        /\ gen.provider_mode = "anthropic"
        /\ Len(sent[t]) = 2
        /\ Len(ResponseOf(t, 1).content) = 2
        /\ ResponseOf(t, 1).content[1].type = "text"
        /\ ResponseOf(t, 1).content[2].type = "tool_use"
        /\ Len(sent[t][2].messages) = 3
        /\ Len(sent[t][2].messages[3].content) = 1

\* C24: a function-calling follow-up request answers a response with n >= 1
\* tool calls; its turns are the initial system and user turns, one
\* assistant turn echoing the response's tool-call descriptors, then n
\* tool-role turns, the i-th tagged with the i-th call's id; and its only
\* other parameters are the initial request's model and temperature.
C24_FunctionCallingFollowUpShape ==
    \A t \in ThreadIds :
        (Constructed /\ gen.provider_mode = "aisuite" /\ Len(sent[t]) = 2) =>
            /\ HasResponse(t, 1)
            /\ Len(ResponseOf(t, 1).choices) > 0
            /\ LET first == sent[t][1]
                   followup == sent[t][2]
                   m == followup.messages
                   tool_calls == ResponseOf(t, 1).choices[1].message.tool_calls
                   n == Len(tool_calls)
               IN  /\ n >= 1
                   /\ Len(first.messages) = 2
                   /\ Len(m) = 3 + n
                   /\ m[1] = first.messages[1]
                   /\ m[1].role = "system"
                   /\ m[2] = first.messages[2]
                   /\ m[2] = [role |-> "user", content |-> loc[t].query]
                   /\ m[3].role = "assistant"
                   /\ m[3].tool_calls = tool_calls
                   /\ \A i \in 1..n :
                          /\ m[3 + i].role = "tool"
                          /\ m[3 + i].tool_call_id = tool_calls[i].id
                   /\ DOMAIN followup = {"model", "messages", "temperature"}
                   /\ followup.model = first.model
                   /\ followup.temperature = first.temperature

C24_Witness ==
    \E t \in ThreadIds :
        /\ Constructed
        /\ gen.provider_mode = "aisuite"
        /\ Len(sent[t]) = 2
        /\ Len(sent[t][2].messages) = 5
        /\ Len(executed[t]) = 2
        /\ sent[t][2].messages[4].tool_call_id # sent[t][2].messages[5].tool_call_id

\* C25: function-calling protocol: a tool round that is past its loop has
\* sent the follow-up request, whatever payloads were malformed; a call
\* whose payload does not parse was never handed to the executor and its
\* tool-role turn carries the parse error's text; every other call was
\* handed to the executor exactly once, under its name and with the argument
\* map its payload parses to.
C25_MalformedPayloadIsPerCall ==
    \A t \in ThreadIds :
        (/\ Constructed
         /\ gen.provider_mode = "aisuite"
         /\ HasResponse(t, 1)
         /\ IsOpenAIToolCall(ResponseOf(t, 1), loc[t].tool_manager)
         /\ loc[t].pc \in {"final_create", "done"}) =>
            /\ Len(sent[t]) = 2
            /\ LET tool_calls == ResponseOf(t, 1).choices[1].message.tool_calls
                   m == sent[t][2].messages
               IN  \A i \in 1..Len(tool_calls) :
                       LET parsed == json_loads(tool_calls[i].function.arguments)
                       IN  IF parsed.ok
                           THEN /\ Cardinality(ExecutionsFor(t, tool_calls[i].id)) = 1
                                /\ \A k \in ExecutionsFor(t, tool_calls[i].id) :
                                       /\ executed[t][k].name = tool_calls[i].function.name
                                       /\ executed[t][k].kwargs = parsed.value
                                       /\ ~IsNone(executed[t][k].outcome)
                           ELSE /\ ExecutionsFor(t, tool_calls[i].id) = {}
                                /\ m[3 + i] = [role |-> "tool",
                                               tool_call_id |-> tool_calls[i].id,
                                               content |-> [error_executing_tool |->
                                                                parsed.exc.message]]

C25_Witness ==
    \E t \in ThreadIds :
        /\ Constructed
        /\ gen.provider_mode = "aisuite"
        /\ Ended(t)
        /\ HasResponse(t, 1)
        /\ Len(ResponseOf(t, 1).choices) > 0
        /\ LET tool_calls == ResponseOf(t, 1).choices[1].message.tool_calls
           IN  /\ Len(tool_calls) = 2
               /\ tool_calls[1].function.arguments = MalformedJson
               /\ tool_calls[2].function.arguments = ValidJson
        /\ Len(executed[t]) = 1
        /\ executed[t][1].kwargs = [query |-> "MCP"]
        /\ executed[t][1].outcome.ok
        /\ Len(sent[t]) = 2

\* Call t went into the tool round: it executed a tool or sent a follow-up.
EnteredToolRound(t) == executed[t] # <<>> \/ Len(sent[t]) = 2

\* C26: once the first response has arrived, the call is in (or through) the
\* tool round exactly when that response is a tool-invocation response, and
\* otherwise it has ended returning the response's text.
C26_ToolRoundIffToolInvocation ==
    \A t \in ThreadIds :
        (Constructed /\ HasResponse(t, 1)) =>
            /\ EnteredToolRound(t) <=> ToolInvocation(ResponseOf(t, 1))
            /\ (~ToolInvocation(ResponseOf(t, 1))) =>
                   /\ Ended(t)
                   /\ loc[t].outcome = Returned(TextOf(ResponseOf(t, 1)))

\* What the code does instead: the round also needs a tool executor, and a
\* call that stays out of the round ends on its single request, returning
\* the response's text when the response has a readable one.
C26_ToolRoundIffInvocationAndExecutor ==
    \A t \in ThreadIds :
        (Constructed /\ HasResponse(t, 1)) =>
            /\ EnteredToolRound(t) <=>
                   (ToolInvocation(ResponseOf(t, 1)) /\ ~IsNone(loc[t].tool_manager))
            /\ (~EnteredToolRound(t)) =>
                   /\ Ended(t)
                   /\ Len(sent[t]) = 1
                   /\ LeadingTextReadable(ResponseOf(t, 1)) =>
                          loc[t].outcome = Returned(TextOf(ResponseOf(t, 1)))

\* C27: the initial request of a call given a non-empty list of tool specs
\* in the native shape carries, under the function-calling protocol, their
\* translation to the function-typed shape with tool-choice "auto", and
\* under the native protocol the specs as given with the auto tool-choice;
\* a call given no tool spec sends neither.
C27_ToolSpecsSent ==
    \A t \in ThreadIds :
        (Constructed /\ Len(sent[t]) >= 1) =>
            LET first == sent[t][1]
                tools == loc[t].tools
            IN  IF ~Truthy(tools)
                THEN DOMAIN first \cap {"tools", "tool_choice"} = {}
                ELSE /\ {"tools", "tool_choice"} \subseteq DOMAIN first
                     /\ IF gen.provider_mode = "anthropic"
                        THEN /\ first.tools = tools.val
                             /\ first.tool_choice = [type |-> "auto"]
                        ELSE /\ first.tools = _convert_tools_to_openai_format(tools.val)
                             /\ first.tool_choice = "auto"

\* What holds of the native protocol alone.
C27_NativeToolSpecsVerbatim ==
    \A t \in ThreadIds :
        (Constructed /\ gen.provider_mode = "anthropic" /\ Len(sent[t]) >= 1) =>
            IF Truthy(loc[t].tools)
            THEN /\ {"tools", "tool_choice"} \subseteq DOMAIN sent[t][1]
                 /\ sent[t][1].tools = loc[t].tools.val
                 /\ sent[t][1].tool_choice = [type |-> "auto"]
            ELSE DOMAIN sent[t][1] \cap {"tools", "tool_choice"} = {}

\* C28: a call whose first request failed has ended raising that failure,
\* with no tool executed and no second request; a call whose follow-up
\* request failed has ended raising that failure, with no third request; and
\* a call that returned an answer got a response to every request it made.
C28_FailurePropagates ==
    \A t \in ThreadIds :
        /\ (Len(replies[t]) >= 1 /\ replies[t][1].kind = "error") =>
               /\ Ended(t)
               /\ loc[t].outcome = Raises(replies[t][1].exc)
               /\ executed[t] = <<>>
               /\ Len(sent[t]) = 1
        /\ (Len(replies[t]) >= 2 /\ replies[t][2].kind = "error") =>
               /\ Ended(t)
               /\ loc[t].outcome = Raises(replies[t][2].exc)
               /\ Len(sent[t]) = 2
        /\ (Ended(t) /\ loc[t].outcome.kind = "return") =>
               /\ Len(replies[t]) = Len(sent[t])
               /\ \A i \in 1..Len(replies[t]) : replies[t][i].kind = "response"

C28_Witness ==
    \E t \in ThreadIds :
        /\ Ended(t)
        /\ Len(replies[t]) = 1
        /\ replies[t][1].kind = "error"
        /\ Truthy(loc[t].tools)
        /\ ~IsNone(loc[t].tool_manager)
        /\ loc[t].outcome.kind = "raise"
        /\ gen.provider_mode = "aisuite"

\* C29: a call made without a tool executor executes no tool and makes one
\* request only: it ends when that request is answered, whatever the answer
\* holds.  Its request carries no tool spec and no tool-choice under the
\* function-calling protocol, and the supplied tool specs under the native
\* protocol.
C29_NoExecutorSingleRequest ==
    \A t \in ThreadIds :
        (Constructed /\ loc[t].pc # "idle" /\ IsNone(loc[t].tool_manager)) =>
            /\ executed[t] = <<>>
            /\ Len(sent[t]) = 1
            /\ loc[t].pc \in {"create", "done"}
            /\ Len(replies[t]) >= 1 => Ended(t)
            /\ IF gen.provider_mode = "aisuite"
               THEN DOMAIN sent[t][1] \cap {"tools", "tool_choice"} = {}
               ELSE Truthy(loc[t].tools) =>
                        /\ "tools" \in DOMAIN sent[t][1]
                        /\ sent[t][1].tools = loc[t].tools.val

C29_Witness ==
    \E t \in ThreadIds :
        /\ Constructed
        /\ gen.provider_mode = "anthropic"
        /\ IsNone(loc[t].tool_manager)
        /\ Truthy(loc[t].tools)
        /\ Ended(t)
        /\ HasResponse(t, 1)
        /\ ResponseOf(t, 1).stop_reason = "tool_use"
        /\ RequestedIds(ResponseOf(t, 1)) # <<>>
        /\ executed[t] = <<>>
        /\ Len(sent[t]) = 1

\* The tool_use blocks of a native response, in order.
ToolUseBlocks(response) == SelectSeq(response.content, IsToolUseBlock)

\* C30: native protocol: a follow-up request holds as many tool_result
\* descriptors as the first response's content holds tool_use blocks; and a
\* call with an executor whose first response signals tool use without any
\* tool_use block executes no tool and still sends the follow-up request,
\* whose turns end with the echoed assistant turn.
C30_NativeResultCount ==
    \A t \in ThreadIds :
        (Constructed /\ gen.provider_mode = "anthropic") =>
            /\ Len(sent[t]) = 2 =>
                   Len(ResultEntries(sent[t][2])) = Len(ToolUseBlocks(ResponseOf(t, 1)))
            /\ (/\ HasResponse(t, 1)
                /\ IsAnthropicToolUse(ResponseOf(t, 1), loc[t].tool_manager)
                /\ ToolUseBlocks(ResponseOf(t, 1)) = <<>>) =>
                   /\ executed[t] = <<>>
                   /\ Len(sent[t]) = 2
                   /\ LET m == sent[t][2].messages
                      IN  /\ m[Len(m)] = [role |-> "assistant",
                                          content |-> ResponseOf(t, 1).content]
                          /\ \A i \in 1..Len(m) : m[i].role = "user" => i = 1

C30_Witness ==
    \E t \in ThreadIds :
        /\ Constructed
        /\ gen.provider_mode = "anthropic"
        /\ HasResponse(t, 1)
        /\ ResponseOf(t, 1).stop_reason = "tool_use"
        /\ Len(ResponseOf(t, 1).content) = 1
        /\ ResponseOf(t, 1).content[1].type = "text"
        /\ executed[t] = <<>>
        /\ Len(sent[t]) = 2
        /\ Len(sent[t][2].messages) = 2

====
